---- MODULE Spec2Model ----
(***************************************************************************)
(* Model of the client-side report generator of genewell                   *)
(* (client/lib/client-pdf-generator.ts).                                   *)
(*                                                                         *)
(* Lengths are in half millimetres, so that the 4.5 mm line height of      *)
(* addText is the integer 9: a source length of n mm is written Mm(n).     *)
(* jsPDF's A4 page is 841.89 pt = 297.00008 mm high; every cursor value    *)
(* the code can produce is a multiple of 0.5 mm, for which                 *)
(* "> 297.00008 - 15" and "> 297 - 15" agree.                              *)
(***************************************************************************)
EXTENDS Integers, Sequences, FiniteSets, TLC

\* ------------------------------------------------------------------ bounds
\* largest number of lines splitTextToSize returns for one text
MaxLines == 2
\* largest number of lines one of the narrative strings of insights wraps to
MaxParagraph == 22
\* longest profile.name, in characters
MaxNameLen == 3
\* largest number of entries of supplementPriority / recommendedMealTimes
MaxItems == 3
\* largest number of entries of recommendedTests
MaxTests == 7
\* range of profile.carbsGrams
MinCarbs == 215
MaxCarbs == 245

\* ----------------------------------------------------------------- lengths
Mm(n) == 2 * n

\* const margin = 15;
margin == Mm(15)

\* pdf.internal.pageSize.getHeight() of format "a4"
pageHeight == Mm(297)

\* ------------------------------------------------------------------- tiers
Tiers == <<"free", "essential", "premium", "coaching">>

TierSet == {Tiers[i] : i \in 1..Len(Tiers)}

\* The fourteen section variants, in the order of the source text.
SectionOrder ==
  << "cover", "top-actions", "executive-summary", "science-updates",
     "metabolic-profile", "nutrition-plan", "meal-plan-detail",
     "sleep-protocol", "movement-plan", "stress-management", "supplements",
     "progress-tracking", "action-plan", "closing" >>

\* ---------------------------------------------------------------- the code
\* One entry per statement of generatePersonalizedPDFClient that draws,
\* breaks the page or computes; line is the source line of the statement.
Inline(sec, line, wraps, per, adv) ==
  [op |-> "inline", sec |-> sec, line |-> line, wraps |-> wraps,
   per |-> per, adv |-> adv, para |-> FALSE]

Call(op, sec, line) ==
  [op |-> op, sec |-> sec, line |-> line, wraps |-> FALSE, per |-> 0,
   adv |-> 0, para |-> FALSE]

Txt(sec, line) == Call("addText", sec, line)

\* addText of one of the narrative strings of insights (metabolicInsight,
\* sleepStrategy, workoutStrategy, stressStrategy)
Para(sec, line) == [Call("addText", sec, line) EXCEPT !.para = TRUE]

Bul(sec, line) == Call("addBulletPoint", sec, line)

Sub(sec, line) == Call("addSubSection", sec, line)

Hdr(sec, line) == Call("addHeaderSection", sec, line)

NP(line) == Call("addNewPage", "none", line)

\* the statements of a forEach over n items
Rep(n, x) == [i \in 1..n |-> x]

\* lines of consecutive calls of one helper, first..last
Run(op, sec, lines) == [i \in 1..Len(lines) |-> Call(op, sec, lines[i])]

Min(a, b) == IF a < b THEN a ELSE b

CoverPage ==
  << Inline("cover", 157, FALSE, 0, Mm(15)),
     Inline("cover", 162, FALSE, 0, Mm(12)),
     Inline("cover", 174, FALSE, 0, Mm(15)),
     Inline("cover", 179, FALSE, 0, Mm(5)),
     Inline("cover", 185, FALSE, 0, Mm(5)),
     Inline("cover", 187, FALSE, 0, Mm(8)),
     Inline("cover", 191, FALSE, 0, Mm(5)),
     Inline("cover", 193, FALSE, 0, Mm(12)),
     Inline("cover", 203, TRUE, 0, 0),
     NP(205) >>

TopActions ==
  << Inline("top-actions", 211, FALSE, 0, Mm(8)),
     Inline("top-actions", 221, TRUE, Mm(4), Mm(3)),
     Inline("top-actions", 225, FALSE, 0, Mm(6)),
     Inline("top-actions", 231, FALSE, 0, Mm(5)),
     Inline("top-actions", 241, TRUE, Mm(4), Mm(4)),
     Inline("top-actions", 247, FALSE, 0, Mm(5)),
     Inline("top-actions", 257, TRUE, Mm(4), Mm(4)),
     Inline("top-actions", 263, FALSE, 0, Mm(5)),
     Inline("top-actions", 273, TRUE, Mm(4), Mm(6)),
     Inline("top-actions", 282, TRUE, 0, 0),
     NP(284) >>

ExecutiveSummary(nTests) ==
  << Hdr("executive-summary", 287), Para("executive-summary", 289),
     Sub("executive-summary", 291) >>
  \o Run("addText", "executive-summary", <<292, 293, 294, 295>>)
  \o << Sub("executive-summary", 297), Txt("executive-summary", 298) >>
  \o << Call("slice", "executive-summary", 299) >>
  \o Rep(Min(nTests, 6), Bul("executive-summary", 300))

\* mutant: the science updates gated like the metabolic profile
ScienceUpdatesPaid(t) ==
  IF t # "free"
  THEN << NP(305), Hdr("science-updates", 306), Txt("science-updates", 311),
          Sub("science-updates", 316) >>
       \o Run("addBulletPoint", "science-updates", <<317, 321, 325, 329>>)
  ELSE << >>

ScienceUpdates(t) ==
  IF t = "premium" \/ t = "coaching"
  THEN << NP(305), Hdr("science-updates", 306), Txt("science-updates", 311),
          Sub("science-updates", 316) >>
       \o Run("addBulletPoint", "science-updates", <<317, 321, 325, 329>>)
  ELSE << >>

\* mutant: the metabolic profile for tier essential only
MetabolicProfileEssentialOnly(t) ==
  IF t = "essential"
  THEN << NP(337), Hdr("metabolic-profile", 338) >>
       \o Run("addText", "metabolic-profile", <<343, 345, 351, 357, 363>>)
       \o << Sub("metabolic-profile", 369) >>
       \o Run("addText", "metabolic-profile", <<370, 371, 375>>)
       \o << Sub("metabolic-profile", 380),
             Call("macroPct", "metabolic-profile", 381) >>
       \o Run("addText", "metabolic-profile", <<391, 392, 398, 399, 405, 406>>)
       \o << NP(412) >>
  ELSE << >>

MetabolicProfile(t) ==
  IF t # "free"
  THEN << NP(337), Hdr("metabolic-profile", 338) >>
       \o Run("addText", "metabolic-profile", <<343, 345, 351, 357, 363>>)
       \o << Sub("metabolic-profile", 369) >>
       \o Run("addText", "metabolic-profile", <<370, 371, 375>>)
       \o << Sub("metabolic-profile", 380),
             Call("macroPct", "metabolic-profile", 381) >>
       \o Run("addText", "metabolic-profile", <<391, 392, 398, 399, 405, 406>>)
       \o << NP(412) >>
  ELSE << >>

MealPlanDetail(t) ==
  IF t = "premium" \/ t = "coaching"
  THEN << NP(440), Sub("meal-plan-detail", 442),
          Txt("meal-plan-detail", 443) >>
       \o Rep(6, Bul("meal-plan-detail", 455))
       \o << Sub("meal-plan-detail", 458) >>
       \o Run("addText", "meal-plan-detail", <<459, 460, 464, 465>>)
       \o << Sub("meal-plan-detail", 467) >>
       \o Run("addBulletPoint", "meal-plan-detail", <<468, 469, 470, 471, 472>>)
       \o << NP(474) >>
  ELSE << >>

NutritionPlan(t, nMeals) ==
  IF t = "essential" \/ t = "premium" \/ t = "coaching"
  THEN << Hdr("nutrition-plan", 417), Sub("nutrition-plan", 422) >>
       \o Rep(nMeals, Txt("nutrition-plan", 425))
       \o << Txt("nutrition-plan", 427), Sub("nutrition-plan", 433) >>
       \o Run("addBulletPoint", "nutrition-plan", <<434, 435, 436, 437>>)
       \o MealPlanDetail(t)
  ELSE << >>

SleepProtocol(t) ==
  << Hdr("sleep-protocol", 479), Para("sleep-protocol", 484),
     Sub("sleep-protocol", 486) >>
  \o Run("addBulletPoint", "sleep-protocol",
         <<487, 488, 489, 490, 491, 492, 493>>)
  \o (IF t # "free"
      THEN << Sub("sleep-protocol", 496) >>
           \o Run("addBulletPoint", "sleep-protocol", <<497, 498, 499>>)
           \o << Txt("sleep-protocol", 500) >>
      ELSE << >>)
  \o << NP(507) >>

WeeklySchedule(t) ==
  IF t = "essential"
  THEN << Txt("movement-plan", 528), Bul("movement-plan", 529),
          Bul("movement-plan", 530), Bul("movement-plan", 531),
          Txt("movement-plan", 533), Bul("movement-plan", 534),
          Txt("movement-plan", 536), Bul("movement-plan", 537) >>
  ELSE IF t = "premium"
  THEN << Txt("movement-plan", 539), Bul("movement-plan", 540),
          Txt("movement-plan", 542), Bul("movement-plan", 543),
          Txt("movement-plan", 545), Bul("movement-plan", 546),
          Txt("movement-plan", 548), Bul("movement-plan", 549),
          Txt("movement-plan", 551), Bul("movement-plan", 552),
          Txt("movement-plan", 554) >>
  ELSE << Txt("movement-plan", 556), Txt("movement-plan", 557) >>

\* mutant: the addNewPage of line 568 after the if, for every tier
MovementPlanBreakAfterIf(t) ==
  (IF t = "essential" \/ t = "premium" \/ t = "coaching"
   THEN << Hdr("movement-plan", 511), Para("movement-plan", 516),
           Sub("movement-plan", 525) >>
        \o WeeklySchedule(t)
        \o << Sub("movement-plan", 563) >>
        \o Run("addText", "movement-plan", <<564, 565, 566>>)
   ELSE << >>)
  \o << NP(568) >>

MovementPlan(t) ==
  IF t = "essential" \/ t = "premium" \/ t = "coaching"
  THEN << Hdr("movement-plan", 511), Para("movement-plan", 516),
          Sub("movement-plan", 525) >>
       \o WeeklySchedule(t)
       \o << Sub("movement-plan", 563) >>
       \o Run("addText", "movement-plan", <<564, 565, 566>>)
       \o << NP(568) >>
  ELSE << >>

StressManagement(t) ==
  << Hdr("stress-management", 572), Para("stress-management", 577),
     Sub("stress-management", 579) >>
  \o Run("addBulletPoint", "stress-management", <<580, 584, 588, 589>>)
  \o (IF t # "free"
      THEN << Sub("stress-management", 592) >>
           \o Run("addBulletPoint", "stress-management", <<593, 597, 601, 602>>)
      ELSE << >>)

\* mutant: the supplements for every paid tier
SupplementsPaid(t, nSupps) ==
  IF t # "free"
  THEN << NP(610), Hdr("supplements", 611), Sub("supplements", 616) >>
       \o Rep(nSupps, Txt("supplements", 618))
       \o << Sub("supplements", 621), Txt("supplements", 622) >>
       \o Run("addBulletPoint", "supplements", <<623, 627, 628>>)
       \o << Txt("supplements", 630), Bul("supplements", 631),
             Sub("supplements", 633) >>
       \o Run("addBulletPoint", "supplements", <<634, 635, 639, 643, 644>>)
  ELSE << >>

Supplements(t, nSupps) ==
  IF t = "premium" \/ t = "coaching"
  THEN << NP(610), Hdr("supplements", 611), Sub("supplements", 616) >>
       \o Rep(nSupps, Txt("supplements", 618))
       \o << Sub("supplements", 621), Txt("supplements", 622) >>
       \o Run("addBulletPoint", "supplements", <<623, 627, 628>>)
       \o << Txt("supplements", 630), Bul("supplements", 631),
             Sub("supplements", 633) >>
       \o Run("addBulletPoint", "supplements", <<634, 635, 639, 643, 644>>)
  ELSE << >>

ProgressTracking ==
  << NP(648), Hdr("progress-tracking", 649), Sub("progress-tracking", 654),
     Txt("progress-tracking", 655) >>
  \o Run("addBulletPoint", "progress-tracking", <<656, 657, 658, 659, 660>>)
  \o << Sub("progress-tracking", 662) >>
  \o Run("addBulletPoint", "progress-tracking", <<663, 664, 665, 666, 667>>)
  \o << Sub("progress-tracking", 669) >>
  \o Run("addText", "progress-tracking", <<670, 671, 672, 673>>)

ActionPlan ==
  << NP(676), Hdr("action-plan", 677), Txt("action-plan", 682) >>
  \o Run("addBulletPoint", "action-plan", <<683, 684, 685, 686>>)
  \o << Txt("action-plan", 688) >>
  \o Run("addBulletPoint", "action-plan", <<689, 690, 691, 692>>)
  \o << Txt("action-plan", 694) >>
  \o Run("addBulletPoint", "action-plan", <<695, 696, 697, 698>>)

Closing ==
  << NP(700),
     Inline("closing", 705, FALSE, 0, Mm(8)),
     Inline("closing", 715, FALSE, 0, Mm(10)),
     Inline("closing", 724, FALSE, 0, Mm(4)),
     Inline("closing", 730, FALSE, 0, Mm(4)),
     Inline("closing", 736, FALSE, 0, 0) >>

\* mutant: the movement plan before the sleep protocol
ProgramMovementFirst(t, nTests, nMeals, nSupps) ==
  CoverPage \o TopActions \o ExecutiveSummary(nTests) \o ScienceUpdates(t)
  \o MetabolicProfile(t) \o NutritionPlan(t, nMeals) \o MovementPlan(t)
  \o SleepProtocol(t) \o StressManagement(t) \o Supplements(t, nSupps)
  \o ProgressTracking \o ActionPlan \o Closing

\* The statements generatePersonalizedPDFClient executes, in order, for a
\* tier and the lengths of profile.recommendedTests,
\* insights.recommendedMealTimes and profile.supplementPriority.
Program(t, nTests, nMeals, nSupps) ==
  CoverPage \o TopActions \o ExecutiveSummary(nTests) \o ScienceUpdates(t)
  \o MetabolicProfile(t) \o NutritionPlan(t, nMeals) \o SleepProtocol(t)
  \o MovementPlan(t) \o StressManagement(t) \o Supplements(t, nSupps)
  \o ProgressTracking \o ActionPlan \o Closing

\* Program, tabulated over the inputs of the model
Programs ==
  [t \in TierSet, nTests \in 0..MaxTests, nMeals \in 0..MaxItems,
   nSupps \in 0..MaxItems |-> Program(t, nTests, nMeals, nSupps)]

\* ------------------------------------------------------------ the filename
\* the characters a name is made of
Chars == {"a", "B", " ", ".", "-", "_"}

\* String.prototype.toLowerCase, on one character
Lower(c) == IF c = "B" THEN "b" ELSE c

toLowerCase(str) == [i \in 1..Len(str) |-> Lower(str[i])]

\* \w of a regular expression: [A-Za-z0-9_]
IsWord(c) == c \in {"a", "b", "B", "_"}

\* \s of a regular expression
IsSpace(c) == c = " "

\* .replace(/[^\w\s-]/g, "")
Keep(c) == IsWord(c) \/ IsSpace(c) \/ c = "-"

ReplaceNonWord(str) == SelectSeq(str, Keep)

\* .replace(/\s+/g, "-")
RECURSIVE SkipSpaces(_)
SkipSpaces(str) ==
  IF str # << >> /\ IsSpace(Head(str)) THEN SkipSpaces(Tail(str)) ELSE str

\* mutant: .replace(/\s/g, "-")
ReplaceEachSpace(str) ==
  [i \in 1..Len(str) |-> IF IsSpace(str[i]) THEN "-" ELSE str[i]]

RECURSIVE ReplaceSpaces(_)
ReplaceSpaces(str) ==
  IF str = << >> THEN << >>
  ELSE IF IsSpace(Head(str))
       THEN << "-" >> \o ReplaceSpaces(SkipSpaces(str))
       ELSE << Head(str) >> \o ReplaceSpaces(Tail(str))

sanitizedName(name) == ReplaceSpaces(ReplaceNonWord(toLowerCase(name)))

\* `${sanitizedName}_${tier}_blueprint_${orderId}.pdf`
Filename(name, tier, orderId) ==
  sanitizedName(name) \o << "_", tier, "_blueprint_" >> \o orderId
  \o << ".pdf" >>

\* ------------------------------------------------------- the macro percents
\* Math.round(num / den * 100) for num, den > 0.  Math.round rounds a half
\* up, but the double num / den * 100 of an exact half may fall on either
\* side of it (0.145 * 100 is 14.499999999999998): both results are kept.
\* Away from a half the double is far closer to the quotient than the
\* quotient is to a half, and the result is the exact one.
MathRound(num, den) ==
  LET twice == (200 * num) \div den
  IN IF (200 * num) % den = 0 /\ twice % 2 = 1
     THEN {(twice - 1) \div 2, (twice + 1) \div 2}
     ELSE {(200 * num + den) \div (2 * den)}

proteinPct(p) == MathRound(p.proteinGrams * 4, p.estimatedTDEE)

carbsPct(p) == MathRound(p.carbsGrams * 4, p.estimatedTDEE)

\* mutant: fat counted at 4 kcal per gram
fatsPctAsCarbs(p) == MathRound(p.fatsGrams * 4, p.estimatedTDEE)

fatsPct(p) == MathRound(p.fatsGrams * 9, p.estimatedTDEE)

\* ------------------------------------------------------------------- state
VARIABLES
  profile,     \* personalizationData.profile
  insights,    \* personalizationData.insights
  wrapLines,   \* the line counts splitTextToSize returns for the texts
  requests,    \* the options of the invocations, in the order they are made
  inv,         \* index in requests of the current invocation, 0 before any
  phase,       \* "idle", "layout" or "done"
  pc,          \* index in Program of the next statement
  yPosition,   \* let yPosition
  pages,       \* number of pages of pdf
  blank,       \* nothing has been drawn on the current page
  sections,    \* the sections drawn so far, in order
  drawn,       \* the blocks drawn by the last statement
  breaks,      \* the statements at which checkPageBreak added a page
  pct,         \* proteinPct, carbsPct, fatsPct
  results      \* what the invocations have returned

\* the Download page (client/pages/Download.tsx)
VARIABLES
  localStorage, \* window.localStorage: the keys the page reads and writes
  download      \* the state of the mounted Download component

\* the server (server/index.ts, server/routes/admin.ts)
VARIABLES
  env,          \* process.env
  db,           \* the tables of the database
  exchange,     \* the request being served and what serving it has done
  served,       \* number of requests served
  mailed,       \* the calls of sendPaymentConfirmationEmail, in order
  hooked        \* the purchase ids webhooks were delivered for

pageVars == << localStorage, download >>

serverVars == << env, db, exchange, served, mailed, hooked >>

\* the state of the page and of the server are not the generator's
elsewhere == << pageVars, serverVars >>

\* getItem gives null for a key that is absent; null and "" are both falsy
\* and the code tests them with ! and || alone: both are written << >>
Absent == << >>

\* no Download page is open
NoPage ==
  /\ localStorage = [analysisId |-> Absent, quizData |-> "absent",
                     planConfiguration |-> Absent, lastPDFData |-> << >>]
  /\ download = [pc |-> "closed"]

\* a header, a field of a body or a variable of the environment that is
\* not there; a string or number that is there is written << ... >>
undefined == << >>

\* no server is running
NoServer ==
  /\ env = [ADMIN_TOKEN |-> undefined]
  /\ db = [purchases |-> << >>, users |-> << >>, quiz_responses |-> << >>]
  /\ exchange = [pc |-> "none"]
  /\ served = 0
  /\ mailed = << >>
  /\ hooked = { }

vars ==
  << profile, insights, wrapLines, requests, inv, phase, pc, yPosition,
     pages, blank, sections, drawn, breaks, pct, results, elsewhere >>

inputs == << profile, insights, wrapLines, requests >>

\* const { tier, addOns = [], orderId, timestamp, language = "en" } = options
options == requests[inv]

Prog ==
  Programs[options.tier, Len(profile.recommendedTests),
           Len(insights.recommendedMealTimes), Len(profile.supplementPriority)]

Cur == Prog[pc]

\* the cursor and the document that the closures of the function share
Cursor == [y |-> yPosition, pages |-> pages, blank |-> blank]

\* mutant: the page is added and the cursor is left where it was
addNewPageKeepsCursor(c) == [y |-> c.y, pages |-> c.pages + 1, blank |-> TRUE]

\* const addNewPage = () => { pdf.addPage(); yPosition = margin; }
addNewPage(c) == [y |-> margin, pages |-> c.pages + 1, blank |-> TRUE]

\* const checkPageBreak = (spaceNeeded) => { if (...) addNewPage(); }
checkPageBreak(c, spaceNeeded) ==
  IF c.y + spaceNeeded > pageHeight - margin THEN addNewPage(c) ELSE c

\* pdf.text / pdf.line at the cursor: a block whose top is c.y
Block(kind, c, height) ==
  [kind |-> kind, top |-> c.y, height |-> height, page |-> c.pages,
   first |-> c.blank]

\* yPosition += adv, after a block was drawn
Advance(c, adv) == [c EXCEPT !.y = c.y + adv, !.blank = FALSE]

\* pdf.splitTextToSize(text, width).length
SplitTextToSize == IF Cur.para THEN wrapLines.para ELSE wrapLines.text

Emit(sec) ==
  IF sec = "none" \/ (sections # << >> /\ sections[Len(sections)] = sec)
  THEN sections
  ELSE Append(sections, sec)

\* the statements at which checkPageBreak added a page are kept for the
\* invocations that are compared with another one on the same data
Compared == Len(requests) > 1

\* the state after one statement: c is the cursor it leaves, blocks what it
\* drew, c0 the cursor after its checkPageBreak
Step(c0, c, blocks) ==
  /\ yPosition' = c.y
  /\ pages' = c.pages
  /\ blank' = c.blank
  /\ drawn' = blocks
  /\ breaks' = IF Compared /\ c0.pages # pages THEN Append(breaks, pc)
               ELSE breaks
  /\ sections' = Emit(Cur.sec)
  /\ pc' = pc + 1
  /\ UNCHANGED << inputs, inv, phase, results, elsewhere >>

At(op) == phase = "layout" /\ pc <= Len(Prog) /\ Cur.op = op

\* mutant: yPosition declared outside the function and set once
StartSharedCursor ==
  /\ phase \in {"idle", "done"}
  /\ inv < Len(requests)
  /\ inv' = inv + 1
  /\ phase' = "layout"
  /\ pc' = 1
  /\ yPosition' = IF inv = 0 THEN margin ELSE yPosition
  /\ pages' = 1
  /\ blank' = TRUE
  /\ sections' = << >>
  /\ drawn' = << >>
  /\ breaks' = << >>
  /\ pct' = << >>
  /\ UNCHANGED << inputs, results, elsewhere >>

\* lines 69-84
Start ==
  /\ phase \in {"idle", "done"}
  /\ inv < Len(requests)
  /\ inv' = inv + 1
  /\ phase' = "layout"
  /\ pc' = 1
  /\ yPosition' = margin
  /\ pages' = 1
  /\ blank' = TRUE
  /\ sections' = << >>
  /\ drawn' = << >>
  /\ breaks' = << >>
  /\ pct' = << >>
  /\ UNCHANGED << inputs, results, elsewhere >>

\* pdf.text(...) / pdf.line(...) written in the body of the function
InlineDraw ==
  /\ At("inline")
  /\ \E n \in (IF Cur.wraps THEN SplitTextToSize ELSE {1}) :
       Step(Cursor, Advance(Cursor, n * Cur.per + Cur.adv),
            << Block("inline", Cursor, IF Cur.wraps THEN n * Mm(4) ELSE 0) >>)
  /\ UNCHANGED pct

\* addNewPage() called from the body of the function
AddNewPage ==
  /\ At("addNewPage")
  /\ Step(Cursor, addNewPage(Cursor), << >>)
  /\ UNCHANGED pct

AddHeaderSection ==
  /\ At("addHeaderSection")
  /\ \E n \in SplitTextToSize :
       LET c0 == checkPageBreak(Cursor, Mm(15))
           c1 == Advance(c0, Mm(10))
           c2 == Advance(c1, n * Mm(4) + Mm(2))
       IN Step(c0, Advance(c2, Mm(5)),
               << Block("title", c0, Mm(10)),
                  Block("subtitle", c1, n * Mm(4)),
                  Block("rule", c2, 0) >>)
  /\ UNCHANGED pct

\* mutant: the sub-section title is drawn and yPosition is left as it was
AddSubSectionNoAdvance ==
  /\ At("addSubSection")
  /\ LET c0 == checkPageBreak(Cursor, Mm(10))
     IN Step(c0, Advance(c0, 0), << Block("addSubSection", c0, Mm(7)) >>)
  /\ UNCHANGED pct

AddSubSection ==
  /\ At("addSubSection")
  /\ LET c0 == checkPageBreak(Cursor, Mm(10))
     IN Step(c0, Advance(c0, Mm(7)), << Block("addSubSection", c0, Mm(7)) >>)
  /\ UNCHANGED pct

AddText ==
  /\ At("addText")
  /\ \E n \in SplitTextToSize :
       LET c0 == checkPageBreak(Cursor, Mm(8))
       IN Step(c0, Advance(c0, n * 9 + Mm(2)),
               << Block("addText", c0, n * 9) >>)
  /\ UNCHANGED pct

AddBulletPoint ==
  /\ At("addBulletPoint")
  /\ \E n \in SplitTextToSize :
       LET c0 == checkPageBreak(Cursor, Mm(6))
       IN Step(c0, Advance(c0, n * Mm(4) + Mm(1)),
               << Block("addBulletPoint", c0, n * Mm(4)) >>)
  /\ UNCHANGED pct

\* mutant: splice(a, b - a) takes the elements out of the array
receiverAfterSplice(arr, a, b) ==
  SubSeq(arr, 1, a) \o SubSeq(arr, b + 1, Len(arr))

\* arr.slice(a, b) returns a copy: the array it is called on is as before
receiverAfterSlice(arr, a, b) == arr

\* profile.recommendedTests.slice(0, 6), line 299
SliceTests ==
  /\ At("slice")
  /\ profile' =
       [profile EXCEPT !.recommendedTests = receiverAfterSlice(@, 0, 6)]
  /\ drawn' = << >>
  /\ sections' = Emit(Cur.sec)
  /\ pc' = pc + 1
  /\ UNCHANGED << insights, wrapLines, requests, inv, phase, yPosition,
                  pages, blank, breaks, pct, results, elsewhere >>

\* lines 381-389
MacroPct ==
  /\ At("macroPct")
  /\ \E pp \in proteinPct(profile), cp \in carbsPct(profile),
        fp \in fatsPct(profile) :
       pct' = << pp, cp, fp >>
  /\ Step(Cursor, Cursor, << >>)

\* mutant: the document is put out and the function does not return
OutputWithoutReturn ==
  /\ phase = "layout" /\ pc = Len(Prog) + 1
  /\ pc' = pc + 1
  /\ results' =
       Append(results,
              [options |-> options, sections |-> sections,
               breaks |-> breaks, pages |-> pages,
               filename |-> Filename(profile.name, options.tier,
                                     options.orderId)])
  /\ UNCHANGED << inputs, inv, phase, yPosition, pages, blank, sections,
                  drawn, breaks, pct, elsewhere >>

\* lines 739-747
Output ==
  /\ phase = "layout" /\ pc = Len(Prog) + 1
  /\ phase' = "done"
  /\ results' =
       Append(results,
              [options |-> options, sections |-> sections,
               breaks |-> breaks, pages |-> pages,
               filename |-> Filename(profile.name, options.tier,
                                     options.orderId)])
  /\ UNCHANGED << inputs, inv, pc, yPosition, pages, blank, sections, drawn,
                  breaks, pct, elsewhere >>

\* -------------------------------------------------------------- the inputs
Items(n) == [i \in 1..n |-> i]

Names == UNION {[1..n -> Chars] : n \in 0..MaxNameLen}

OrderIds == {<< "7" >>, << "8", "-", "x" >>}

AnyWrap == [text |-> 1..MaxLines, para |-> 1..MaxParagraph]

FixedWraps ==
  {[text |-> {n}, para |-> {m}] : n \in 1..MaxLines, m \in {1, MaxParagraph}}

BaseProfile ==
  [name |-> << "B", "a" >>, proteinGrams |-> 113, carbsGrams |-> 236,
   fatsGrams |-> 67, estimatedTDEE |-> 2000, recommendedTests |-> Items(6),
   supplementPriority |-> Items(2)]

BaseInsights == [recommendedMealTimes |-> Items(3)]

Options == [tier : TierSet, orderId : OrderIds]

BaseOptions == [tier : TierSet, orderId : {<< "7" >>}]

One(S) == {<< o >> : o \in S}

\* texts of unknown length, one invocation of every tier
LayoutInputs == {BaseProfile} \X {BaseInsights} \X {AnyWrap} \X One(BaseOptions)

\* two invocations in a row on the same data, for the same order
RepeatInputs ==
  {BaseProfile} \X {BaseInsights} \X FixedWraps
  \X {r \in Options \X Options : r[1].orderId = r[2].orderId}

\* every length of the three lists
ListInputs ==
  {[BaseProfile EXCEPT !.recommendedTests = Items(a),
                       !.supplementPriority = Items(b)] :
     a \in 0..MaxTests, b \in 0..MaxItems}
  \X {[recommendedMealTimes |-> Items(c)] : c \in 0..MaxItems}
  \X {[text |-> {1}, para |-> {1}]} \X One(BaseOptions)

\* every name
NameInputs ==
  {[BaseProfile EXCEPT !.name = n] : n \in Names}
  \X {BaseInsights} \X {[text |-> {1}, para |-> {1}]}
  \X One([tier : {"free"}, orderId : {<< "7" >>}])

\* gram targets around and away from the energy they are derived from
MacroInputs ==
  {[BaseProfile EXCEPT !.proteinGrams = p, !.carbsGrams = c,
                       !.fatsGrams = f, !.estimatedTDEE = t] :
     p \in {90, 113}, c \in MinCarbs..MaxCarbs, f \in {50, 67},
     t \in {1800, 2000}}
  \X {BaseInsights} \X {[text |-> {1}, para |-> {1}]}
  \X One([tier : {"essential"}, orderId : {<< "7" >>}])

Inputs ==
  LayoutInputs \cup RepeatInputs \cup ListInputs \cup NameInputs
  \cup MacroInputs

\* before the first invocation
NotCalled ==
  /\ inv = 0
  /\ phase = "idle"
  /\ pc = 0
  /\ yPosition = 0
  /\ pages = 0
  /\ blank = TRUE
  /\ sections = << >>
  /\ drawn = << >>
  /\ breaks = << >>
  /\ pct = << >>
  /\ results = << >>

Init ==
  /\ \E i \in Inputs :
       /\ profile = i[1]
       /\ insights = i[2]
       /\ wrapLines = i[3]
       /\ requests = i[4]
  /\ NotCalled
  /\ NoPage
  /\ NoServer

Next ==
  \/ Start
  \/ InlineDraw
  \/ AddNewPage
  \/ AddHeaderSection
  \/ AddSubSection
  \/ AddText
  \/ AddBulletPoint
  \/ SliceTests
  \/ MacroPct
  \/ Output

Spec == Init /\ [][Next]_vars

\* ------------------------------------------------------------- properties
Rank(t) == CHOOSE i \in 1..Len(Tiers) : Tiers[i] = t

Pos(sec) == CHOOSE i \in 1..Len(SectionOrder) : SectionOrder[i] = sec

SetOf(seq) == {seq[i] : i \in 1..Len(seq)}

Returned == SetOf(results)

Bottom == pageHeight - margin

\* C1: of two reports made from the same profile and insights, the one of
\* the lower tier has no section that the one of the higher tier lacks.
TierMonotonicity ==
  \A r1, r2 \in Returned :
    Rank(r1.options.tier) < Rank(r2.options.tier)
      => SetOf(r1.sections) \subseteq SetOf(r2.sections)

TierMonotonicityWitness ==
  \E r1, r2 \in Returned :
    /\ r1.options.tier = "free" /\ r2.options.tier = "premium"
    /\ SetOf(r1.sections) # SetOf(r2.sections)
    /\ "sleep-protocol" \in SetOf(r1.sections)

\* C2: a returned report has metabolic-profile exactly from tier essential
\* up, and science-updates, supplements and meal-plan-detail exactly from
\* tier premium up; at no moment is meal-plan-detail in a report that has no
\* nutrition-plan.
Has(r, sec) == sec \in SetOf(r.sections)

AtLeast(r, t) == Rank(r.options.tier) >= Rank(t)

SectionGating ==
  /\ \A r \in Returned :
       /\ Has(r, "metabolic-profile") <=> AtLeast(r, "essential")
       /\ Has(r, "science-updates") <=> AtLeast(r, "premium")
       /\ Has(r, "supplements") <=> AtLeast(r, "premium")
       /\ Has(r, "meal-plan-detail") <=> AtLeast(r, "premium")
  /\ "meal-plan-detail" \in SetOf(sections)
       => "nutrition-plan" \in SetOf(sections)

SectionGatingWitness ==
  \E r1, r2 \in Returned :
    /\ r1.options.tier = "essential" /\ Has(r1, "metabolic-profile")
    /\ ~Has(r1, "supplements")
    /\ r2.options.tier = "coaching" /\ Has(r2, "meal-plan-detail")
    /\ Has(r2, "science-updates") /\ Has(r2, "supplements")

\* C3, as claimed: the report of tier essential has exactly the ten listed
\* sections.
EssentialSectionsClaimed ==
  {"cover", "top-actions", "executive-summary", "metabolic-profile",
   "nutrition-plan", "sleep-protocol", "movement-plan", "stress-management",
   "progress-tracking", "action-plan"}

EssentialExactlyTen ==
  \A r \in Returned :
    r.options.tier = "essential"
      => SetOf(r.sections) = EssentialSectionsClaimed

\* C3, amended: the report of tier essential has exactly the ten listed
\* sections and the closing section, and none of science-updates,
\* meal-plan-detail and supplements.
EssentialTenAndClosing ==
  \A r \in Returned :
    r.options.tier = "essential"
      => SetOf(r.sections) = EssentialSectionsClaimed \cup {"closing"}

EssentialWitness ==
  \E r \in Returned :
    /\ r.options.tier = "essential"
    /\ Has(r, "closing") /\ Has(r, "movement-plan")
    /\ ~Has(r, "science-updates")

\* C4: at every moment the sections drawn so far follow the fixed order of
\* the fourteen section variants, none of them twice.
SectionOrderFixed ==
  \A i, j \in 1..Len(sections) :
    i < j => Pos(sections[i]) < Pos(sections[j])

SectionOrderWitness ==
  /\ phase = "done"
  /\ sections = SectionOrder

\* C5, as claimed: no block is drawn with its top below pageHeight - margin.
BlockTopsAboveBottom ==
  \A i \in 1..Len(drawn) : drawn[i].top <= Bottom

\* C6: the first block of every page after the first is drawn at the top
\* margin, and the cursor is at the top margin for as long as an added page
\* is empty.
PagesBeginAtMargin ==
  /\ \A i \in 1..Len(drawn) :
       drawn[i].first /\ drawn[i].page > 1 => drawn[i].top = margin
  /\ phase = "layout" /\ blank /\ pages > 1 => yPosition = margin

\* a block is the first of a page that checkPageBreak added
PagesBeginAtMarginWitness ==
  /\ phase = "layout"
  /\ pc > 2
  /\ Prog[pc - 1].op \in {"addText", "addBulletPoint", "addSubSection"}
  /\ Prog[pc - 2].op \in {"addText", "addBulletPoint", "addSubSection"}
  /\ drawn # << >>
  /\ drawn[1].first /\ drawn[1].page > 1
  /\ Cardinality(wrapLines.text) > 1

\* C7, as claimed: every block placed by addText, addBulletPoint,
\* addSubSection or addHeaderSection ends, with all its wrapped lines, at or
\* above pageHeight - margin.
Helpers == {"addText", "addBulletPoint", "addSubSection", "title", "subtitle"}

BlocksFitOnPage ==
  \A i \in 1..Len(drawn) :
    drawn[i].kind \in Helpers => drawn[i].top + drawn[i].height <= Bottom

\* C8: the filename returned is the lower-cased name without the characters
\* that are neither word characters, whitespace nor hyphens and with every
\* run of whitespace turned into one "-", followed by _<tier>_blueprint_
\* <orderId>.pdf.
Kept(name) ==
  LET low == [i \in 1..Len(name) |-> IF name[i] = "B" THEN "b" ELSE name[i]]
      ok == {i \in 1..Len(low) : low[i] \in {"a", "b", "_", " ", "-"}}
      nth(k) == CHOOSE i \in ok : Cardinality({j \in ok : j < i}) = k - 1
  IN [k \in 1..Cardinality(ok) |-> low[nth(k)]]

RECURSIVE Dashed(_, _)
Dashed(str, n) ==
  IF n = 0 THEN << >>
  ELSE LET c == str[n]
       IN IF c # " " THEN Append(Dashed(str, n - 1), c)
          ELSE IF n > 1 /\ str[n - 1] = " " THEN Dashed(str, n - 1)
          ELSE Append(Dashed(str, n - 1), "-")

FilenameFormat ==
  \A r \in Returned :
    r.filename =
      Dashed(Kept(profile.name), Len(Kept(profile.name)))
      \o << "_", r.options.tier, "_blueprint_" >> \o r.options.orderId
      \o << ".pdf" >>

FilenameWitness ==
  /\ profile.name = << " ", ".", " " >>
  /\ \E r \in Returned : r.filename[1] = "-" /\ r.filename[2] = "_"

\* C9: invocations with equal options on the same data return the same
\* sections, the same page breaks, the same number of pages and the same
\* filename, and every invocation begins on page 1 with its cursor at the
\* margin and an empty document.
Determinism ==
  /\ \A r1, r2 \in Returned : r1.options = r2.options => r1 = r2
  /\ \A i, j \in 1..Len(results) :
       i # j /\ requests[i] = requests[j] => results[i] = results[j]
  /\ phase = "layout" /\ pc = 1
       => /\ yPosition = margin /\ pages = 1 /\ blank
          /\ sections = << >> /\ breaks = << >>

\* the second of two equal invocations has returned, after page breaks
DeterminismWitness ==
  /\ Len(results) = 2
  /\ requests[1] = requests[2]
  /\ results[2].breaks # << >>
  /\ results[2].pages > 10

\* C10, as claimed: the three percentages sum to a value in 98..102.
PctSum == pct[1] + pct[2] + pct[3]

MacroSumInRange == pct # << >> => PctSum \in 98..102

\* C10, amended: when the energy of the gram targets is within half a
\* percent of the TDEE, the three percentages sum to a value in 98..102.
Energy(p) == 4 * p.proteinGrams + 4 * p.carbsGrams + 9 * p.fatsGrams

Abs(x) == IF x < 0 THEN 0 - x ELSE x

Consistent(p) ==
  /\ p.estimatedTDEE > 0
  /\ 200 * Abs(Energy(p) - p.estimatedTDEE) <= p.estimatedTDEE

MacroSumInRangeIfConsistent ==
  pct # << >> /\ Consistent(profile) => PctSum \in 98..102

MacroSumWitness ==
  /\ pct # << >>
  /\ Consistent(profile)
  /\ PctSum # 100
  /\ Energy(profile) # profile.estimatedTDEE

\* ------------------------------------------- the Download page: the model
\* largest number of times the page's effect runs while it is open
MaxRuns == 2

\* the variables of an invocation of the generator
rendering ==
  << inv, phase, pc, yPosition, pages, blank, sections, drawn, breaks, pct,
     results >>

\* planId of the product of a tier, e.g. "essential_blueprint"
planIdOf(t) == << t, "_blueprint" >>

PlanIds == {planIdOf(t) : t \in TierSet}

\* str.replace(tok, ""): the first occurrence of tok is removed
RECURSIVE ReplaceFirst(_, _)
ReplaceFirst(str, tok) ==
  IF str = << >> THEN << >>
  ELSE IF str[1] = tok THEN SubSeq(str, 2, Len(str))
  ELSE << str[1] >> \o ReplaceFirst(SubSeq(str, 2, Len(str)), tok)

\* const planTier = config.planId.replace("_blueprint", "")
planTier(planId) == ReplaceFirst(planId, "_blueprint")[1]

\* the values of localStorage quizData: no entry, a string JSON.parse
\* rejects, an object analyzeQuizData rejects, an object it accepts
QuizData == {"absent", "garbled", "rejected", "ok"}

\* mutant: the quiz data is not looked at before the generator is called
thrownWithoutQuizCheck(ls) ==
  IF ls.analysisId = Absent
  THEN << "Analysis ID not found. Please complete the quiz first." >>
  ELSE << >>

\* lines 92-131: the Error thrown before the generator is called, << >> if
\* none is
thrown(ls) ==
  IF ls.analysisId = Absent
  THEN << "Analysis ID not found. Please complete the quiz first." >>
  ELSE IF ls.quizData = "absent"
  THEN << "Quiz data not found. Please complete the quiz first." >>
  ELSE IF ls.quizData = "garbled"
  THEN << "Invalid quiz data format" >>
  ELSE IF ls.quizData = "rejected"
  THEN << "Failed to analyze quiz data: ", "message" >>
  ELSE << >>

\* lines 155-179: let pageCount = 1; pageCount += 1; ...
pageCount(tier) ==
  LET upper == tier \in {"premium", "coaching"}
      paid == tier \in {"essential", "premium", "coaching"}
  IN 1 + 1 + 1
     + (IF upper THEN 1 ELSE 0)
     + (IF tier # "free" THEN 1 ELSE 0)
     + (IF paid THEN 1 + (IF upper THEN 1 ELSE 0) ELSE 0)
     + 1
     + (IF paid THEN 1 ELSE 0)
     + 1
     + (IF upper THEN 1 ELSE 0)
     + 1 + 1

\* a render of the component: lines 57-58 read localStorage again, and
\* JSON.parse of a quizData that is not JSON throws out of the render
Render(d, ls) ==
  IF ls.quizData = "garbled" THEN [d EXCEPT !.pc = "crashed"]
  ELSE [d EXCEPT !.analysisId = ls.analysisId, !.quizData = ls.quizData]

\* lines 264-315: what the component returns
View ==
  IF download.pc \in {"closed", "opening", "crashed"} THEN "nothing"
  ELSE IF download.analysisId = Absent /\ download.configuration = Absent
  THEN "Quiz Required"
  ELSE IF download.isLoading THEN "Creating Your Personalized Blueprint"
  ELSE "Your Blueprint is Ready"

\* lines 66-77: location.state, else the stored planConfiguration
stateConfig ==
  IF download.location # Absent THEN download.location
  ELSE localStorage.planConfiguration

\* lines 49-63 and the first render
Mount ==
  /\ download.pc = "opening"
  /\ download' = Render([download EXCEPT !.pc = "mounted"], localStorage)
  /\ UNCHANGED << inputs, rendering, localStorage, serverVars >>

\* another tab or the quiz page writes the quiz keys of localStorage between
\* a render and the effect that follows it
StorageEvent ==
  /\ download.pc = "mounted"
  /\ \E a \in {Absent} \cup OrderIds, q \in QuizData :
       /\ << a, q >> # << localStorage.analysisId, localStorage.quizData >>
       /\ localStorage' =
            [localStorage EXCEPT !.analysisId = a, !.quizData = q]
  /\ UNCHANGED << inputs, rendering, download, serverVars >>

\* generatePDF up to its await, lines 86-146, on the component state d
generatePDF(d, config) ==
  LET err == thrown(localStorage)
      d1 == [d EXCEPT !.runs = d.runs + 1,
                      !.seen = [analysisId |-> localStorage.analysisId,
                                quizData |-> localStorage.quizData],
                      !.wrote = FALSE, !.called = FALSE, !.entered = TRUE]
  IN IF err # << >>
     THEN [d1 EXCEPT !.error = << "PDF generation failed: " >> \o err,
                     !.isLoading = FALSE, !.pc = "settled"]
     ELSE [d1 EXCEPT !.error = << >>, !.isLoading = TRUE,
                     !.called = TRUE, !.pc = "awaiting"]

\* lines 65-84, and the call of generatePDF up to its await
UseEffect ==
  /\ download.pc = "mounted"
  /\ LET config == stateConfig
         d0 == [download EXCEPT !.configuration = config]
         d1 == IF config # Absent /\ download.analysisId # Absent
               THEN generatePDF(d0, config)
               ELSE [d0 EXCEPT !.pc = "settled", !.runs = d0.runs + 1,
                               !.wrote = FALSE, !.called = FALSE,
                               !.entered = FALSE]
     IN /\ download' = Render(d1, localStorage)
        /\ requests' =
             IF d1.pc = "awaiting"
             THEN Append(requests, [tier |-> planTier(config),
                                    orderId |-> localStorage.analysisId])
             ELSE requests
  /\ UNCHANGED << profile, insights, wrapLines, rendering, localStorage,
                  serverVars >>

\* lines 147-216: after the generator has returned
GeneratePDFResume ==
  /\ download.pc = "awaiting"
  /\ phase = "done" /\ inv = Len(requests)
  /\ LET n == pageCount(options.tier)
     IN /\ localStorage' =
             [localStorage EXCEPT
                !.lastPDFData = << [orderId |-> options.orderId,
                                    pageCount |-> n,
                                    filename |-> results[inv].filename] >>]
        /\ download' =
             Render([download EXCEPT
                       !.pdfData = << [orderId |-> options.orderId,
                                       planTier |-> download.configuration,
                                       pageCount |-> n] >>,
                       !.wrote = TRUE, !.isLoading = FALSE,
                       !.pc = "settled"],
                    localStorage')
  /\ UNCHANGED << inputs, rendering, serverVars >>

\* line 57, quizData.userName: the name the stored quiz carries is the name
\* analyzeQuizData gives the profile; a quiz it rejects carries none
userName(d) == IF d.quizData = "ok" THEN profile.name ELSE << >>

\* line 232: `${(quizData.userName || "blueprint").replace(/\s+/g, "-")}
\* _${pdfData.planTier}.pdf`
downloadName(d) ==
  ReplaceSpaces(IF userName(d) = << >> THEN << "blueprint" >>
                ELSE userName(d))
  \o << "_" >> \o d.pdfData[1].planTier \o << ".pdf" >>

\* lines 219-245: the click on "Download PDF"; link.click() saves the blob
\* under link.download
handleDownload ==
  /\ download.pc = "settled"
  /\ download.pdfData # << >>
  /\ download' = [download EXCEPT !.saved = << downloadName(download) >>]
  /\ UNCHANGED << inputs, rendering, localStorage, serverVars >>

\* the router gives the page another location.state: the effect runs again;
\* saved is the file saved since the page last settled
Navigate ==
  /\ download.pc = "settled"
  /\ download.runs < MaxRuns
  /\ \E l \in ({Absent} \cup PlanIds) \ {download.location} :
       download' =
         Render([download EXCEPT !.location = l, !.pc = "mounted",
                                 !.saved = << >>],
                localStorage)
  /\ UNCHANGED << inputs, rendering, localStorage, serverVars >>

\* a user name other than the base profile's, with spaces
DownloadNames == {<< "a", " ", " " >>}

\* the page is opened on one stored quiz, with texts that wrap to one line
\* each or to as many as they may
DownloadInit ==
  /\ insights = BaseInsights
  /\ \E i \in ({BaseProfile}
                \X {[text |-> {1}, para |-> {1}],
                    [text |-> {MaxLines}, para |-> {MaxParagraph}]})
               \cup ({[BaseProfile EXCEPT !.name = n] : n \in DownloadNames}
                     \X {[text |-> {1}, para |-> {1}]}) :
       profile = i[1] /\ wrapLines = i[2]
  /\ requests = << >>
  /\ NotCalled
  /\ localStorage \in
       [analysisId : {Absent, << "7" >>}, quizData : QuizData,
        planConfiguration : {Absent, planIdOf("essential")},
        lastPDFData : {<< >>}]
  /\ \E l \in {Absent} \cup PlanIds :
       download =
         [pc |-> "opening", location |-> l, analysisId |-> Absent,
          quizData |-> "absent", configuration |-> Absent,
          pdfData |-> << >>, isLoading |-> FALSE, error |-> << >>,
          runs |-> 0, entered |-> FALSE, wrote |-> FALSE, called |-> FALSE,
          seen |-> [analysisId |-> Absent, quizData |-> "absent"],
          saved |-> << >>]
  /\ NoServer

DownloadNext ==
  \/ Mount
  \/ StorageEvent
  \/ UseEffect
  \/ GeneratePDFResume
  \/ handleDownload
  \/ Navigate
  \/ Start
  \/ InlineDraw
  \/ AddNewPage
  \/ AddHeaderSection
  \/ AddSubSection
  \/ AddText
  \/ AddBulletPoint
  \/ SliceTests
  \/ MacroPct
  \/ Output

DownloadSpec == DownloadInit /\ [][DownloadNext]_vars

\* ------------------------------------- the Download page: the properties
\* C11, as claimed: the pageCount that generatePDF stores in pdfData and in
\* localStorage lastPDFData is the number of pages of the document the
\* generator produced in that run.
PageCountIsPages ==
  download.pc = "settled" /\ download.wrote
    => /\ download.pdfData[1].pageCount = results[Len(results)].pages
       /\ localStorage.lastPDFData[1].pageCount = results[Len(results)].pages

\* C12: a run of generatePDF that finds no analysis id, no quiz data, quiz
\* data that does not parse or quiz data the analysis rejects never invokes
\* the generator, writes neither pdfData nor lastPDFData, and ends with a
\* non-empty error and isLoading false.
InputFailed(seen) == seen.analysisId = Absent \/ seen.quizData # "ok"

NoPartialDocument ==
  /\ download.pc # "closed" /\ download.entered /\ InputFailed(download.seen)
       => /\ ~download.called
          /\ ~download.wrote
          /\ download.error # << >>
          /\ ~download.isLoading
          /\ download.runs = 1
               => download.pdfData = << >> /\ localStorage.lastPDFData = << >>
  /\ download.pc # "closed" /\ phase = "layout"
       => ~InputFailed(download.seen)

\* a run fails on its input after an earlier run has stored a document
NoPartialDocumentWitness ==
  /\ download.pc = "settled"
  /\ download.entered
  /\ download.seen.quizData = "rejected"
  /\ download.runs = 2
  /\ download.pdfData # << >>

\* C13, as claimed: while the quiz prerequisite is absent the page shows
\* "Quiz Required", and an error is shown only when the analysis itself
\* failed.
QuizRequiredShown ==
  download.pc \in {"mounted", "settled"}
    => /\ download.analysisId = Absent \/ download.quizData = "absent"
            => View = "Quiz Required"
       /\ download.error # << >> => download.seen.quizData = "rejected"

\* C21, as claimed: the file handleDownload saves carries the filename the
\* generator returned for the document held in pdfData (the one generatePDF
\* recorded in lastPDFData together with it).
SavedUnderGeneratedFilename ==
  download.pc # "closed" /\ download.saved # << >>
    => download.saved[1] = localStorage.lastPDFData[1].filename

\* --------------------------------------------- the generator's arguments
\* C14: no step of the generator changes a field of profile or of insights,
\* the three arrays included.
ProfileReadOnly == [][profile' = profile /\ insights' = insights]_vars

\* the report of a profile with more than six recommended tests is done
ProfileReadOnlyWitness ==
  /\ phase = "done"
  /\ Len(profile.recommendedTests) > 6
  /\ Len(profile.supplementPriority) > 0
  /\ options.tier = "premium"

\* -------------------------------------------------- the server: the model
\* largest number of requests the server is sent
MaxRequests == 2

\* the variables of the generator and of the page
client ==
  << profile, insights, wrapLines, requests, rendering, pageVars >>

\* the strings parseInt gives a number for; for any other string and for
\* undefined it gives NaN
Numerals == {<< "0" >>, << "1" >>, << "2" >>, << "3" >>, << "-1" >>}

\* parseInt of a numeral
parseInt(str) ==
  CASE str = << "0" >> -> 0
    [] str = << "1" >> -> 1
    [] str = << "2" >> -> 2
    [] str = << "3" >> -> 3
    [] str = << "-1" >> -> 0 - 1

\* parseInt(v) || d: NaN and 0 are falsy
parseIntOr(v, d) ==
  IF v \in Numerals /\ parseInt(v) # 0 THEN parseInt(v) ELSE d

\* Math.ceil(a / b) for a >= 0 and b # 0
MathCeil(a, b) ==
  IF b > 0 THEN (a + b - 1) \div b ELSE 0 - (a \div (0 - b))

\* !v of a string or undefined
Falsy(v) == v = undefined \/ v = << "" >>

Reverse(seq) == [i \in 1..Len(seq) |-> seq[Len(seq) + 1 - i]]

\* SELECT * FROM purchases WHERE user_id = $1 ORDER BY created_at DESC
getPurchases(userId) ==
  LET OfUser(row) == row.user_id = userId
  IN Reverse(SelectSeq(db.purchases, OfUser))

\* SELECT * FROM users WHERE email = $1, rows[0]
getUser(email) ==
  LET Is(row) == row.email = email
  IN SelectSeq(db.users, Is)

\* UPDATE purchases SET payment_status = $2, instamojo_payment_id =
\* COALESCE($3, instamojo_payment_id) ... WHERE id = $1
updatePurchasePaymentStatus(rows, purchaseId, status, paymentId) ==
  [i \in 1..Len(rows) |->
     IF rows[i].id = purchaseId
     THEN [rows[i] EXCEPT
             !.payment_status = status,
             !.instamojo_payment_id =
               IF paymentId = undefined THEN @ ELSE paymentId]
     ELSE rows[i]]

Response(status, success, message) ==
  [status |-> status, success |-> success, message |-> message]

\* what serving a request has done so far
Serving(req, at) ==
  [pc |-> at, req |-> req, res |-> << >>, ran |-> FALSE, queries |-> 0,
   gateway |-> 0, emails |-> << >>, examined |-> 0, threw |-> FALSE,
   before |-> db, metadata |-> << >>, created |-> 0, purchaseId |-> 0,
   failed |-> "none", available |-> TRUE, accepted |-> FALSE,
   sql |-> << >>,
   pagination |-> << >>]

Send(x, response) == [x EXCEPT !.res = Append(@, response), !.pc = "done"]

Tokens == {undefined, << "" >>, << "s3cret" >>, << "guess" >>}

\* the admin routes of the model: the dashboard and the four paginated
\* lists
Paginated ==
  {"/api/admin/users", "/api/admin/purchases", "/api/admin/quiz-responses",
   "/api/admin/email-logs"}

AdminRoutes == {"/api/admin/dashboard"} \cup Paginated

\* req.query.page and req.query.limit: absent, not a number, zero,
\* negative, positive
QueryValues == {undefined, << "x" >>, << "0" >>, << "-1" >>, << "2" >>}

AdminRequests ==
  [route : AdminRoutes, x_admin_token : Tokens, page : QueryValues,
   limit : QueryValues]

CreateRequests ==
  [route : {"/api/payments/create-payment-request"},
   email : {undefined, << "" >>, << "a@b" >>},
   analysisId : {undefined, << "7" >>},
   planId : {undefined, << "premium_blueprint" >>},
   amount : {undefined, << 0 >>, << 499 >>},
   quiz : BOOLEAN]

\* details: what getPaymentDetails of the gateway client answers for the
\* payment of the purchase, were it asked
VerifyRequests ==
  [route : {"/api/payments/verify/:purchaseId"},
   purchaseId : {<< "1" >>, << "2" >>, << "3" >>},
   details : {"none", "Pending", "Completed"}]

\* quiz of a payment request: quizData && personalizationData.
\* signed: what verifyWebhookSignature answers for the request; parses:
\* whether parseWebhookData returns; paid: what isPaymentSuccessful answers
\* for the status it carries
WebhookRequests ==
  [route : {"/api/payments/webhook"},
   signed : BOOLEAN, parses : BOOLEAN, paid : BOOLEAN,
   purchase_id : {undefined, << "1" >>, << "3" >>},
   user_id : {undefined, << "0" >>, << "2" >>}]

Requests ==
  AdminRequests \cup CreateRequests \cup VerifyRequests
  \cup WebhookRequests

\* app.get / app.post of createServer: the first handler of a route
FirstHandler(req) ==
  CASE req.route \in AdminRoutes -> "requireAdmin"
    [] req.route = "/api/payments/create-payment-request" ->
         "handleCreatePaymentRequest"
    [] req.route = "/api/payments/verify/:purchaseId" ->
         "handleVerifyPayment"
    [] req.route = "/api/payments/webhook" -> "handlePaymentWebhook"

\* a request arrives when the one before it has been answered
Receive ==
  /\ exchange.pc \in {"listening", "done"}
  /\ served < MaxRequests
  /\ \E req \in Requests : exchange' = Serving(req, FirstHandler(req))
  /\ served' = served + 1
  /\ UNCHANGED << client, env, db, mailed, hooked >>

\* routes/admin.ts lines 12-23
requireAdmin ==
  /\ exchange.pc = "requireAdmin"
  /\ exchange' =
       IF exchange.req.x_admin_token # env.ADMIN_TOKEN
       THEN Send(exchange,
                 Response(401, FALSE,
                          "Unauthorized - Invalid or missing admin token"))
       ELSE [exchange EXCEPT !.pc = "adminHandler"]
  /\ UNCHANGED << client, env, db, served, mailed, hooked >>

\* SELECT COUNT(*) as count FROM the table a paginated route lists;
\* handleGetAllPurchases makes the query and drops its result. A row of
\* email_logs is taken to be written by each confirmation mail.
totalCount(route) ==
  CASE route = "/api/admin/users" -> << Len(db.users) >>
    [] route = "/api/admin/quiz-responses" -> << Len(db.quiz_responses) >>
    [] route = "/api/admin/email-logs" -> << Len(mailed) >>
    [] route = "/api/admin/purchases" -> << >>

\* the pagination object of the response
pagination(route, page, limit) ==
  [page |-> page, limit |-> limit, totalCount |-> totalCount(route),
   totalPages |-> IF totalCount(route) = << >> THEN << >>
                  ELSE << MathCeil(totalCount(route)[1], limit) >>]

\* handleAdminDashboard, handleGetAllUsers, handleGetAllPurchases,
\* handleGetQuizResponses, handleGetEmailLogs: they read the tables and
\* answer 200, or 500 when a query throws; ok: no query throws for a reason
\* of the database's own. LIMIT and OFFSET must not be negative: the
\* database refuses the query otherwise.
AdminHandler ==
  /\ exchange.pc = "adminHandler"
  /\ \E ok \in BOOLEAN :
       LET req == exchange.req
           paged == req.route \in Paginated
           page == parseIntOr(req.page, 1)
           limit == parseIntOr(req.limit, 20)
           offset == (page - 1) * limit
           refused == paged /\ (limit < 0 \/ offset < 0)
           x == [exchange EXCEPT
                   !.ran = TRUE, !.queries = @ + 1,
                   !.sql = IF paged
                           THEN << [page |-> page, limit |-> limit,
                                    offset |-> offset] >>
                           ELSE << >>,
                   !.threw = ~ok \/ refused]
       IN exchange' =
            IF ok /\ ~refused
            THEN Send([x EXCEPT
                         !.pagination =
                           IF paged
                           THEN << pagination(req.route, page, limit) >>
                           ELSE << >>],
                      Response(200, TRUE, ""))
            ELSE Send(x, Response(500, FALSE, "Internal server error"))
  /\ UNCHANGED << client, env, db, served, mailed, hooked >>

\* mutant: planId is not looked at
incompleteWithoutPlan(body) ==
  Falsy(body.email) \/ Falsy(body.analysisId) \/ body.amount = undefined

\* !email || !analysisId || !planId || amount === undefined
incomplete(body) ==
  \/ Falsy(body.email)
  \/ Falsy(body.analysisId)
  \/ Falsy(body.planId)
  \/ body.amount = undefined

\* the calls of lib/db.ts that handleCreatePaymentRequest makes
DbCalls == {"getUser", "createUser", "saveQuizResponse", "createPurchase"}

\* Date.now() of line 440: a time in milliseconds, above every id of a row
DateNow == 1000

\* INSERT INTO users ... RETURNING *
createUser(users, email) ==
  Append(users, [id |-> Len(users) + 1, email |-> email])

\* INSERT INTO quiz_responses ...: analysis_id is UNIQUE, the insert of a
\* second row with the same analysis_id throws
saveQuizResponseThrows(rows, analysisId) ==
  \E i \in 1..Len(rows) : rows[i].analysis_id = analysisId

saveQuizResponse(rows, userId, analysisId) ==
  Append(rows, [user_id |-> userId, analysis_id |-> analysisId])

\* INSERT INTO purchases ...: analysis_id REFERENCES quiz_responses
\* (analysis_id), the insert throws when no quiz response has that id
createPurchaseThrows(quiz, analysisId) ==
  ~\E i \in 1..Len(quiz) : quiz[i].analysis_id = analysisId

createPurchase(rows, userId, analysisId) ==
  Append(rows,
         [id |-> Len(rows) + 1, user_id |-> userId,
          analysis_id |-> analysisId, payment_status |-> "pending",
          instamojo_payment_id |-> undefined])

\* mutant: purchase?.id || 0
purchaseIdOrZero(purchase) ==
  IF purchase # << >> THEN purchase[1].id ELSE 0

\* line 440: purchase?.id || Date.now()
purchaseIdOf(purchase) ==
  IF purchase # << >> THEN purchase[1].id ELSE DateNow

\* line 441: user?.id || 0
userIdOf(user) == IF user # << >> THEN user[1].id ELSE 0

\* lines 417-437: the try block of the handler. failing is the call whose
\* query the database refuses for a reason of its own (no connection),
\* "none" if there is none. The result holds the tables as the calls that
\* returned left them, user and purchase as the handler's variables are
\* when the block is left, failed the call that threw and the number of
\* queries made.
StorePurchase(body, failing) ==
  LET found == getUser(body.email)
      gave(tables, user, purchase, failed, queries) ==
        [db |-> tables, user |-> user, purchase |-> purchase,
         failed |-> failed, queries |-> queries]
      made == found = << >>
      users == IF made THEN createUser(db.users, body.email) ELSE db.users
      user == << IF made THEN users[Len(users)] ELSE found[1] >>
      q1 == 1 + (IF made THEN 1 ELSE 0)
      db1 == [db EXCEPT !.users = users]
      quiz == IF body.quiz
              THEN saveQuizResponse(db.quiz_responses, user[1].id,
                                    body.analysisId)
              ELSE db.quiz_responses
      q2 == q1 + (IF body.quiz THEN 1 ELSE 0)
      db2 == [db1 EXCEPT !.quiz_responses = quiz]
      purchases == createPurchase(db.purchases, user[1].id, body.analysisId)
      db3 == [db2 EXCEPT !.purchases = purchases]
  IN IF failing = "getUser" THEN gave(db, << >>, << >>, "getUser", 1)
     ELSE IF made /\ failing = "createUser"
     THEN gave(db, << >>, << >>, "createUser", q1)
     ELSE IF /\ body.quiz
             /\ \/ failing = "saveQuizResponse"
                \/ saveQuizResponseThrows(db.quiz_responses, body.analysisId)
     THEN gave(db1, user, << >>, "saveQuizResponse", q2)
     ELSE IF \/ failing = "createPurchase"
             \/ createPurchaseThrows(quiz, body.analysisId)
     THEN gave(db2, user, << >>, "createPurchase", q2 + 1)
     ELSE gave(db3, user, << purchases[Len(purchases)] >>, "none", q2 + 1)

\* routes/payments.ts handleCreatePaymentRequest; gateway: what
\* createPaymentRequest of the gateway client answers
handleCreatePaymentRequest ==
  /\ exchange.pc = "handleCreatePaymentRequest"
  /\ IF incomplete(exchange.req)
     THEN /\ exchange' =
               Send(exchange,
                    Response(400, FALSE,
                             "Missing required fields: email, analysisId, planId, amount"))
          /\ db' = db
     ELSE \E failing \in {"none"} \cup DbCalls,
             gateway \in {"created", "refused", "throws"} :
            LET stored == StorePurchase(exchange.req, failing)
                purchaseId == purchaseIdOf(stored.purchase)
                userId == userIdOf(stored.user)
            IN /\ db' = stored.db
               /\ exchange' =
                    Send([exchange EXCEPT
                            !.ran = TRUE,
                            !.queries = stored.queries,
                            !.failed = stored.failed,
                            !.available = stored.failed # failing
                                          \/ failing = "none",
                            !.created = IF stored.purchase # << >>
                                        THEN stored.purchase[1].id ELSE 0,
                            !.gateway = 1,
                            !.accepted = gateway = "created",
                            !.metadata = << [purchase_id |-> purchaseId,
                                             user_id |-> userId] >>,
                            !.purchaseId = IF gateway = "created"
                                           THEN purchaseId ELSE 0,
                            !.threw = gateway = "throws"],
                         CASE gateway = "created" -> Response(200, TRUE, "")
                           [] gateway = "refused" ->
                                Response(400, FALSE,
                                         "Failed to create payment request")
                           [] gateway = "throws" ->
                                Response(500, FALSE, "Internal server error"))
  /\ UNCHANGED << client, env, served, mailed, hooked >>

\* routes/payments.ts handleVerifyPayment
handleVerifyPayment ==
  /\ exchange.pc = "handleVerifyPayment"
  /\ LET purchase == getPurchases(parseInt(exchange.req.purchaseId))
         x == [exchange EXCEPT !.ran = TRUE, !.queries = 1]
     IN IF purchase = << >>
        THEN /\ exchange' = Send(x, Response(404, FALSE, "Purchase not found"))
             /\ db' = db
        ELSE LET purchaseData == purchase[1]
                 y == [x EXCEPT !.examined = purchaseData.id]
             IN IF purchaseData.instamojo_payment_id = undefined
                THEN /\ exchange' =
                          Send(y, Response(400, FALSE,
                                 "No payment ID associated with this purchase"))
                     /\ db' = db
                ELSE LET details == exchange.req.details
                     IN
                       IF details = "none"
                       THEN /\ exchange' =
                                 Send([y EXCEPT !.gateway = 1],
                                      Response(400, FALSE,
                                        "Failed to fetch payment details"))
                            /\ db' = db
                       ELSE /\ exchange' =
                                 Send([y EXCEPT !.gateway = 1],
                                      Response(200, TRUE, details))
                            /\ db' =
                                 IF /\ details = "Completed"
                                    /\ purchaseData.payment_status
                                         # "completed"
                                 THEN [db EXCEPT !.purchases =
                                         updatePurchasePaymentStatus(
                                           @, purchaseData.id, "completed",
                                           << "MOJO" >>)]
                                 ELSE db
  /\ UNCHANGED << client, env, served, mailed, hooked >>

\* mutant: the catch answers like the catch of the other handlers
webhookCatchResponseError == Response(500, FALSE, "Internal server error")

\* lines 603-606: res.status(200).json(...) in the catch
webhookCatchResponse ==
  Response(200, TRUE, "Webhook processed (with errors)")

\* routes/payments.ts handlePaymentWebhook; updates, mails: the update and
\* the mail do not throw
handlePaymentWebhook ==
  /\ exchange.pc = "handlePaymentWebhook"
  /\ LET req == exchange.req
         x == [exchange EXCEPT !.ran = TRUE]
         failed(y) ==
           Send([y EXCEPT !.threw = TRUE], webhookCatchResponse)
         processed(y) == Send(y, Response(200, TRUE, "Webhook processed"))
         quiet == mailed' = mailed /\ hooked' = hooked
     IN IF ~req.parses
        THEN exchange' = failed(x) /\ db' = db /\ quiet
        ELSE IF Falsy(req.purchase_id)
        THEN exchange' = processed(x) /\ db' = db /\ quiet
        ELSE \E updates \in BOOLEAN, mails \in BOOLEAN :
               LET purchaseId == parseInt(req.purchase_id)
                   status == IF req.paid THEN "completed" ELSE "failed"
                   userId == IF req.user_id # undefined
                             THEN parseInt(req.user_id) ELSE 0
                   mail == req.paid /\ userId # 0
                   call == [userId |-> userId, purchaseId |-> purchaseId]
                   y == [x EXCEPT !.queries = 1]
                   z == [y EXCEPT !.emails = Append(@, call)]
               IN /\ hooked' = hooked \cup {purchaseId}
                  /\ IF ~updates
                     THEN exchange' = failed(y) /\ db' = db
                          /\ mailed' = mailed
                     ELSE /\ db' = [db EXCEPT !.purchases =
                                      updatePurchasePaymentStatus(
                                        @, purchaseId, status, << "MOJO" >>)]
                          /\ mailed' = IF mail THEN Append(mailed, call)
                                       ELSE mailed
                          /\ exchange' =
                               IF ~mail THEN processed(y)
                               ELSE IF mails THEN processed(z)
                               ELSE failed(y)
  /\ UNCHANGED << client, env, served >>

\* two purchases whose ids are not the ids of their users: a webhook has
\* reported the first as failed, none has come for the second
Purchases ==
  << [id |-> 1, user_id |-> 2, analysis_id |-> << "5" >>,
      payment_status |-> "failed", instamojo_payment_id |-> << "MOJO" >>],
     [id |-> 2, user_id |-> 1, analysis_id |-> << "6" >>,
      payment_status |-> "pending", instamojo_payment_id |-> undefined] >>

\* the rows a webhook has set the payment id of
HadWebhook(rows) ==
  {i \in 1..Len(rows) : rows[i].instamojo_payment_id # undefined}

QuizResponses ==
  << [user_id |-> 2, analysis_id |-> << "5" >>],
     [user_id |-> 1, analysis_id |-> << "6" >>] >>

Users == << [id |-> 1, email |-> << "a@b" >>],
            [id |-> 2, email |-> << "c@d" >>] >>

ServerInit ==
  /\ profile = BaseProfile
  /\ insights = BaseInsights
  /\ wrapLines = [text |-> {1}, para |-> {1}]
  /\ requests = << >>
  /\ NotCalled
  /\ NoPage
  /\ env \in [ADMIN_TOKEN : {undefined, << "s3cret" >>}]
  /\ db \in {[purchases |-> << >>, users |-> << >>,
             quiz_responses |-> << >>],
            [purchases |-> Purchases, users |-> Users,
             quiz_responses |-> QuizResponses]}
  /\ exchange = [pc |-> "listening"]
  /\ served = 0
  /\ mailed = << >>
  /\ hooked = {db.purchases[i].id : i \in HadWebhook(db.purchases)}

ServerNext ==
  \/ Receive
  \/ requireAdmin
  \/ AdminHandler
  \/ handleCreatePaymentRequest
  \/ handleVerifyPayment
  \/ handlePaymentWebhook

ServerSpec == ServerInit /\ [][ServerNext]_vars

\* --------------------------------------------- the server: the properties
Routed(handler) ==
  exchange.pc # "listening" /\ FirstHandler(exchange.req) = handler

Answered(handler) == Routed(handler) /\ exchange.pc = "done"

\* C15, as claimed: the handler of an admin route runs only for a request
\* that carries an x-admin-token header equal to the configured token, and
\* a request without the header or with another token is answered 401,
\* success = false, without the handler having run.
AdminNeedsToken ==
  Routed("requireAdmin")
    => LET token == exchange.req.x_admin_token
           authentic == token # undefined /\ token = env.ADMIN_TOKEN
       IN /\ exchange.ran => authentic
          /\ exchange.pc = "done" /\ ~authentic
               => /\ ~exchange.ran
                  /\ Len(exchange.res) = 1
                  /\ exchange.res[1].status = 401
                  /\ ~exchange.res[1].success

\* C16, as claimed: a webhook request whose signature verifyWebhookSignature
\* does not accept leaves every purchase as it was and sends no mail.
WebhookNeedsSignature ==
  Routed("handlePaymentWebhook") /\ ~exchange.req.signed
    => db.purchases = exchange.before.purchases /\ exchange.emails = << >>

\* C17, as claimed: the purchase handleVerifyPayment examines and marks
\* completed is the row whose id is the purchaseId of the path, and it
\* answers 404 exactly when there is no such row.
VerifiesThatPurchase ==
  Answered("handleVerifyPayment")
    => LET id == parseInt(exchange.req.purchaseId)
           was == exchange.before.purchases
       IN /\ exchange.res[1].status = 404
               <=> ~\E i \in 1..Len(was) : was[i].id = id
          /\ exchange.examined # 0 => exchange.examined = id
          /\ \A i \in 1..Len(was) :
               db.purchases[i] # was[i] => was[i].id = id

\* C18: the webhook handler answers every request exactly once, with status
\* 200 and success = true, whatever the signature and the metadata are and
\* whichever of its calls throws.
WebhookAcknowledges ==
  Routed("handlePaymentWebhook")
    => IF exchange.pc = "done"
       THEN /\ Len(exchange.res) = 1
            /\ exchange.res[1].status = 200
            /\ exchange.res[1].success
       ELSE exchange.res = << >>

\* a webhook with a bad signature is acknowledged after sending the mail
\* threw
WebhookAcknowledgesWitness ==
  /\ Answered("handlePaymentWebhook")
  /\ ~exchange.req.signed
  /\ exchange.req.paid
  /\ exchange.threw
  /\ db.purchases # exchange.before.purchases

\* C19: a payment request without email, analysisId or planId, or with
\* amount undefined, is answered 400 "Missing required fields" with no
\* query and no call of the gateway; a request with all four is never
\* answered so.
Missing(v) == v = undefined \/ v = << "" >>

MissingFields ==
  Response(400, FALSE,
           "Missing required fields: email, analysisId, planId, amount")

IncompleteRequestRejected ==
  Answered("handleCreatePaymentRequest")
    => LET body == exchange.req
           lacking == \/ Missing(body.email)
                      \/ Missing(body.analysisId)
                      \/ Missing(body.planId)
                      \/ body.amount = undefined
       IN IF lacking
          THEN /\ exchange.res = << MissingFields >>
               /\ exchange.queries = 0
               /\ exchange.gateway = 0
               /\ db = exchange.before
          ELSE /\ Len(exchange.res) = 1
               /\ exchange.res[1] # MissingFields

\* a request that lacks the planId alone is rejected on a database that has
\* purchases
IncompleteRequestWitness ==
  /\ Answered("handleCreatePaymentRequest")
  /\ exchange.req.planId = undefined
  /\ exchange.req.email = << "a@b" >>
  /\ exchange.req.analysisId # undefined
  /\ exchange.req.amount = << 0 >>
  /\ exchange.res = << MissingFields >>
  /\ db.purchases # << >>

\* ------------------------------------------------ the renderer's progress
\* The body of the function is synchronous: once it is entered, every
\* statement that can run does run.
\* texts of unknown length in the shortest report, and every tier twice in
\* a row with texts of known length
TerminationInputs ==
  ({BaseProfile} \X {BaseInsights} \X {AnyWrap}
     \X One([tier : {"free"}, orderId : {<< "7" >>}]))
  \cup ({BaseProfile} \X {BaseInsights} \X FixedWraps
          \X {<< o, o >> : o \in BaseOptions})

TerminationInit ==
  /\ \E i \in TerminationInputs :
       /\ profile = i[1]
       /\ insights = i[2]
       /\ wrapLines = i[3]
       /\ requests = i[4]
  /\ NotCalled
  /\ NoPage
  /\ NoServer

TerminationSpec == TerminationInit /\ [][Next]_vars /\ WF_vars(Next)

\* C20: an invocation goes from idle to laying out to done and does not
\* stay laying out for ever; it adds at most one page per statement; a
\* page that is added is laid out from the top margin; each invocation
\* returns once, with its filename, and nothing is drawn once it is done.
PhaseStep ==
  \/ phase = "idle" /\ phase' = "layout"
  \/ phase = "layout" /\ phase' \in {"layout", "done"}
  \/ phase = "done" /\ phase' = "layout"

RendererTerminates ==
  /\ (phase = "layout") ~> (phase = "done")
  /\ [](phase = "layout" => pages <= pc)
  /\ [](phase = "layout" /\ blank /\ pages > 1 => yPosition = margin)
  /\ [](Len(results) = IF phase = "layout" THEN inv - 1 ELSE inv)
  /\ [](phase = "done" => results[inv].filename # << >>)
  /\ [][PhaseStep]_vars
  /\ [][phase = "done" => pc' = 1 /\ drawn' = << >>]_vars

\* a report whose texts overflowed their pages is done
RendererTerminatesWitness ==
  /\ phase = "done"
  /\ Cardinality(wrapLines.text) > 1
  /\ options.tier = "free"
  /\ pages > 7

\* ---------------------------------------------------- the cursor's advance
\* the offset at which whatever follows block i of the last statement is
\* drawn: the top of the statement's next block, else yPosition
After(i) == IF i < Len(drawn) THEN drawn[i + 1].top ELSE yPosition

\* the cursor has passed block i: it is below the block's top by at least
\* the block's height
Advanced(i) ==
  After(i) > drawn[i].top /\ After(i) >= drawn[i].top + drawn[i].height

\* a statement follows the last one
MoreToDo == phase = "layout" /\ pc <= Len(Prog)

\* one statement of an invocation
Statement == phase = "layout" /\ phase' = "layout"

\* C22, as claimed: after each block drawn the cursor is increased by the
\* block's height plus a gap before the next block is drawn or the page is
\* broken; within one page the offset is strictly increasing over the
\* statements that draw, and it decreases only by a reset to the margin on
\* a page break.
CursorAdvancedAfterEveryBlock ==
  /\ [](MoreToDo => \A i \in 1..Len(drawn) : Advanced(i))
  /\ [][Statement
          => /\ pages' = pages /\ drawn' # << >> => yPosition' > yPosition
             /\ yPosition' < yPosition => pages' = pages + 1]_vars

\* C22, amended: the cursor is advanced past every block that is followed
\* by another block on its page, that is every block but the two that the
\* function draws right before an explicit addNewPage (the cover's
\* introduction, line 203, and the third action, line 282); within one page
\* the offset never decreases, and when it decreases a page was added and
\* the cursor was reset to the margin before anything was drawn.
CursorAdvancedBeforeNextBlock ==
  /\ [](MoreToDo
          => \A i \in 1..Len(drawn) :
               \/ Advanced(i)
               \/ /\ i = Len(drawn)
                  /\ Cur.op = "addNewPage"
                  /\ Prog[pc - 1].line \in {203, 282})
  /\ [][Statement
          => /\ pages' = pages => yPosition' >= yPosition
             /\ yPosition' < yPosition
                  => /\ pages' = pages + 1
                     /\ drawn' = << >> \/ drawn'[1].top = margin]_vars

\* a paragraph was drawn at the top of a page checkPageBreak added, and the
\* cursor is below it by its lines and the gap
CursorAdvancedWitness ==
  /\ MoreToDo
  /\ Len(drawn) = 1
  /\ drawn[1].kind = "addText"
  /\ drawn[1].first /\ drawn[1].top = margin /\ drawn[1].page > 1
  /\ Prog[pc - 2].op # "addNewPage"
  /\ drawn[1].height > 9
  /\ yPosition = margin + drawn[1].height + Mm(2)

\* ------------------------------------------- the server: the payment flow
\* C23: when getUser, createUser, saveQuizResponse or createPurchase throws,
\* handleCreatePaymentRequest still calls the gateway once, with metadata
\* purchase_id a generated id that is the id of no row and with user_id 0
\* unless a user record was obtained, creates no purchase, and answers
\* 200, success = true with that purchase id whenever the gateway accepts.
DatabaseFallback ==
  Answered("handleCreatePaymentRequest") /\ exchange.failed # "none"
    => LET meta == exchange.metadata[1]
           mine == getUser(exchange.req.email)
       IN /\ exchange.gateway = 1
          /\ exchange.created = 0
          /\ db.purchases = exchange.before.purchases
          /\ meta.purchase_id = DateNow
          /\ \A i \in 1..Len(db.purchases) :
               db.purchases[i].id # meta.purchase_id
          /\ meta.user_id =
               IF exchange.failed \in {"getUser", "createUser"} THEN 0
               ELSE mine[1].id
          /\ exchange.accepted
               => /\ exchange.res = << Response(200, TRUE, "") >>
                  /\ exchange.purchaseId = DateNow

\* the user was created, saving the quiz response threw, and the gateway
\* accepted the request
DatabaseFallbackWitness ==
  /\ Answered("handleCreatePaymentRequest")
  /\ exchange.failed = "saveQuizResponse"
  /\ db.users # exchange.before.users
  /\ exchange.metadata[1].user_id # 0
  /\ exchange.accepted
  /\ exchange.res[1].success

\* C25, as claimed: once the payment_status of a purchase is 'completed',
\* no webhook delivery and no call of handleVerifyPayment changes it.
CompletedStaysCompleted ==
  [][\A i \in 1..Len(db.purchases) :
       db.purchases[i].payment_status = "completed"
         => db'.purchases[i].payment_status = "completed"]_vars

\* C26, as claimed: with the database available, every success answer of
\* handleCreatePaymentRequest carries a purchaseId that is the id of a
\* purchases row that request created, whatever requests came before it.
PurchaseIdIsCreatedRow ==
  /\ Answered("handleCreatePaymentRequest")
  /\ exchange.available
  /\ exchange.res[1].success
  => /\ exchange.created # 0
     /\ exchange.purchaseId = exchange.created
     /\ Len(db.purchases) = Len(exchange.before.purchases) + 1
     /\ db.purchases[Len(db.purchases)].id = exchange.purchaseId

\* C27, as claimed: sendPaymentConfirmationEmail is invoked at most once
\* for a purchase, however many webhooks are delivered for it, and only by
\* a webhook whose status is successful and whose metadata.user_id is a
\* non-zero id.
OneMailPerPurchase ==
  /\ [](\A i, j \in 1..Len(mailed) :
          mailed[i].purchaseId = mailed[j].purchaseId => i = j)
  /\ [][mailed' # mailed
          => /\ Routed("handlePaymentWebhook")
             /\ exchange.req.paid
             /\ exchange.req.user_id \notin {undefined, << "0" >>}]_vars

\* C28, as claimed: for a purchase that no webhook was delivered for and
\* whose payment the gateway reports as completed, handleVerifyPayment
\* answers 200 with isCompleted = true and the purchase is completed.
VerifyCompletesWithoutWebhook ==
  Answered("handleVerifyPayment") /\ exchange.req.details = "Completed"
    => LET id == parseInt(exchange.req.purchaseId)
       IN \A i \in 1..Len(exchange.before.purchases) :
            exchange.before.purchases[i].id = id /\ id \notin hooked
              => /\ exchange.res = << Response(200, TRUE, "Completed") >>
                 /\ db.purchases[i].payment_status = "completed"

\* ------------------------------------------- the server: the pagination
\* C24, as claimed: for every page and limit query value the four list
\* handlers query with limit >= 1 and offset = (page - 1) * limit >= 0,
\* with page 1 and limit 20 for a value that is absent or not a number, and
\* the totalPages they report is the smallest n >= 0 with
\* n * limit >= totalCount.
PaginationMath ==
  Routed("requireAdmin") /\ exchange.sql # << >>
    => LET q == exchange.sql[1]
           req == exchange.req
       IN /\ q.limit >= 1
          /\ q.offset >= 0
          /\ q.offset = (q.page - 1) * q.limit
          /\ req.page \in {undefined, << "x" >>} => q.page = 1
          /\ req.limit \in {undefined, << "x" >>} => q.limit = 20
          /\ \A i \in 1..Len(exchange.pagination) :
               LET p == exchange.pagination[i]
               IN p.totalPages # << >>
                    => /\ p.totalPages[1] >= 0
                       /\ p.totalPages[1] * p.limit >= p.totalCount[1]
                       /\ p.totalPages[1] > 0
                            => (p.totalPages[1] - 1) * p.limit
                                 < p.totalCount[1]

\* ------------------------------------------------------------ blank pages
\* C29: every page of the document has a block drawn on it: a page is
\* added, by addNewPage or by checkPageBreak, only when something has been
\* drawn on the current one, and the document is never put out with
\* nothing drawn on its last page.
NoBlankPages ==
  /\ [][Statement /\ pages' # pages => ~blank /\ pages' = pages + 1]_vars
  /\ [](phase = "layout" /\ pc = Len(Prog) + 1 => ~blank)
  /\ [](phase = "done" => ~blank)

\* a premium report is put out with more pages than the fourteen that its
\* thirteen calls of addNewPage give: checkPageBreak added another
NoBlankPagesWitness ==
  /\ phase = "done"
  /\ options.tier = "premium"
  /\ pages > 14
  /\ ~blank
  /\ wrapLines = AnyWrap

====
